---- MODULE Spec2Model ----
(***************************************************************************)
(* A model of k13-engineering/node-util:                                   *)
(*   - the native addon loader (src/lib/snippets/native-loader.ts),        *)
(*   - the garbage collection guard (gc-guard.ts, src/unnamed/part_001),   *)
(*   - formatPointer (src/unnamed/part_000).                               *)
(*                                                                         *)
(* A path is a sequence of names, the root directory "/" is <<>>.  A name  *)
(* is a sequence of atoms, its last atom being its extension when it has   *)
(* one: "addon.node" is <<"addon", ".node">>, "Release" is <<"Release">>.  *)
(***************************************************************************)
EXTENDS Integers, Sequences, FiniteSets, TLC

VARIABLES
  ourScriptPath,   \* the loader's script path, fixed at construction
  fs,              \* the paths that exist in the filesystem
  last,            \* the last call of loadRelativeToPackageRoot and its outcome
  nCalls,          \* calls of loadRelativeToPackageRoot so far
  nReturned,       \* ... that returned
  nThrew,          \* ... that threw
  nLoads,          \* invocations of systemInterface.loadAddonAtPath so far
  findLast,        \* the last call of findPackageRoot with an explicit budget
  protected,       \* the records protect() has created
  info,            \* the info each record was protected with
  handleHeld,      \* records whose handle object { release } the program still holds
  fnHeld,          \* records whose release function the program holds directly
  collected,       \* records whose release function the collector has reclaimed
  registry,        \* the cells of instanceFinalizationRegistry
  stack,           \* the release() calls in progress, innermost last
  releaseCalls,    \* per record: calls of release()
  callbackCalls,   \* per record: invocations of the provided release callback
  releaseReturns,  \* per record: calls of release() that returned
  createErrorCalls,\* the calls of createError, in order
  uncaught,        \* the errors the finalization callback raised, in order
  formatLast       \* the last call of formatPointer and its outcome

loaderVars == <<ourScriptPath, fs, last, nCalls, nReturned, nThrew, nLoads>>
guardVars == <<protected, info, handleHeld, fnHeld, collected, registry, stack,
               releaseCalls, callbackCalls, releaseReturns, createErrorCalls, uncaught>>
vars == <<ourScriptPath, fs, last, nCalls, nReturned, nThrew, nLoads, findLast,
          protected, info, handleHeld, fnHeld, collected, registry, stack,
          releaseCalls, callbackCalls, releaseReturns, createErrorCalls, uncaught,
          formatLast>>

----------------------------------------------------------------------------
(* Bounds of the model *)

\* calls of loadRelativeToPackageRoot in one behaviour
MaxCalls == 2
\* the largest budget findPackageRoot is called with directly
MaxSteps == 4
\* calls of release() on one record
MaxReleases == 2
\* the most 16-bit limbs of a pointer address formatPointer is called with
MaxLimbs == 5

----------------------------------------------------------------------------
(* Names and paths (node:path on absolute POSIX paths) *)

Name(s) == <<s>>
PackageJsonName == <<"package", ".json">>
DebugName == Name("Debug")
ReleaseName == Name("Release")
DotDot == Name("..")
Dot == Name(".")
NodeSuffix == ".node"

Root == <<>>

\* nodePath.dirname: the parent directory; the root is its own parent
Dirname(path) ==
  IF path = Root THEN Root ELSE SubSeq(path, 1, Len(path) - 1)

\* nodePath.join(path, relative): appends the segments and normalises "." and ".."
RECURSIVE Join(_, _)
Join(path, relative) ==
  IF relative = <<>> THEN path
  ELSE IF Head(relative) = Dot THEN Join(path, Tail(relative))
  ELSE IF Head(relative) = DotDot THEN Join(Dirname(path), Tail(relative))
  ELSE Join(Append(path, Head(relative)), Tail(relative))

\* nodePath.resolve(folder, name) with an absolute folder
Resolve(folder, name) == Join(folder, <<name>>)

\* String.prototype.endsWith
EndsWith(entry, suffix) == Len(entry) >= 1 /\ entry[Len(entry)] = suffix

----------------------------------------------------------------------------
(* Outcomes of calls.  An error is a record; its cause is <<>> or <<error>>. *)

Err(msg, steps, path, cause) ==
  [msg |-> msg, steps |-> steps, path |-> path, cause |-> cause]

\* one call of a capability of the system interface, with what it answered
Call(op, path, result) == [op |-> op, path |-> path, result |-> result]

Bool(b) == IF b THEN "true" ELSE "false"

Returned(value, calls) ==
  [threw |-> FALSE, value |-> <<value>>, error |-> <<>>, calls |-> calls]
Threw(error, calls) ==
  [threw |-> TRUE, value |-> <<>>, error |-> <<error>>, calls |-> calls]

----------------------------------------------------------------------------
(* The filesystem the system interface reads *)

\* the directories the script can live in: /p, /p/lib, /p/lib/d, /p/lib/d/d, ...
RECURSIVE DirAtDepth(_)
DirAtDepth(n) ==
  IF n = 0 THEN Root
  ELSE Append(DirAtDepth(n - 1),
              IF n = 1 THEN Name("p") ELSE IF n = 2 THEN Name("lib") ELSE Name("d"))

PackageDir == DirAtDepth(1)
LibDir == DirAtDepth(2)
BuildDir == Join(PackageDir, <<Name("build")>>)
DebugDir == Join(BuildDir, <<DebugName>>)
ReleaseDir == Join(BuildDir, <<ReleaseName>>)

AddonNode == <<"addon", ".node">>
BindingNode == <<"binding", ".node">>
AddonBin == <<"addon", ".bin">>

\* every path that can exist
Universe ==
  { Join(Root, <<PackageJsonName>>),
    Join(PackageDir, <<PackageJsonName>>),
    Join(LibDir, <<PackageJsonName>>),
    BuildDir, DebugDir, ReleaseDir,
    Join(DebugDir, <<AddonNode>>),
    Join(ReleaseDir, <<AddonNode>>),
    Join(ReleaseDir, <<BindingNode>>),
    Join(ReleaseDir, <<AddonBin>>) }

RECURSIVE IsPrefix(_, _)
IsPrefix(p, q) ==
  \/ p = q
  \/ q # Root /\ IsPrefix(p, Dirname(q))

\* a filesystem holds the parent of everything it holds
ParentClosed(files) ==
  \A p \in files : Dirname(p) \in Universe => Dirname(p) \in files

\* TFileSystemInterface.existsSync
ExistsSync(path) == path \in fs

RECURSIVE SetToSeq(_)
SetToSeq(S) ==
  IF S = {} THEN <<>>
  ELSE LET x == CHOOSE y \in S : TRUE IN <<x>> \o SetToSeq(S \ {x})

\* TFileSystemInterface.readdirSync: the names of the entries of a directory
ReaddirSync(path) ==
  SetToSeq({ p[Len(p)] : p \in { q \in fs : q # Root /\ Dirname(q) = path } })

\* what a readdirSync that raises throws
ListingError(path) == Err(<<"ENOENT: no such file or directory, scandir">>, 0, path, <<>>)

\* what loadAddonAtPath does: returns a handle, or throws
LoadOutcomes ==
  { [threw |-> FALSE, handle |-> "native1"],
    [threw |-> FALSE, handle |-> "native2"],
    [threw |-> TRUE, handle |-> "none"] }

LoadError(path) == Err(<<"addon could not be loaded">>, 0, path, <<>>)

----------------------------------------------------------------------------
(* createNativeAddonLoader *)

\* a bug: the search goes on above a manifest and returns the topmost one
RECURSIVE FindPackageJsonLoop_Topmost(_, _, _, _, _)
FindPackageJsonLoop_Topmost(startPath, maxUpwardSteps, currentPath, i, calls) ==
  IF i < maxUpwardSteps
  THEN LET packageJsonPath == Join(currentPath, <<PackageJsonName>>)
           calls1 == Append(calls, Call("existsSync", packageJsonPath,
                                        Bool(ExistsSync(packageJsonPath))))
           parentPath == Dirname(currentPath)
           above == FindPackageJsonLoop_Topmost(startPath, maxUpwardSteps, parentPath,
                                                i + 1, calls1)
       IN  IF parentPath = currentPath
           THEN IF ExistsSync(packageJsonPath)
                THEN Returned(packageJsonPath, calls1)
                ELSE Threw(Err(<<"Could not find package.json within N directory levels from">>,
                               maxUpwardSteps, startPath, <<>>), calls1)
           ELSE IF ExistsSync(packageJsonPath) /\ above.threw
           THEN Returned(packageJsonPath, above.calls)
           ELSE above
  ELSE Threw(Err(<<"Could not find package.json within N directory levels from">>,
                 maxUpwardSteps, startPath, <<>>), calls)

\* a bug: the search does not stop at the filesystem root
RECURSIVE FindPackageJsonLoop_NoRootBreak(_, _, _, _, _)
FindPackageJsonLoop_NoRootBreak(startPath, maxUpwardSteps, currentPath, i, calls) ==
  IF i < maxUpwardSteps
  THEN LET packageJsonPath == Join(currentPath, <<PackageJsonName>>)
           calls1 == Append(calls, Call("existsSync", packageJsonPath,
                                        Bool(ExistsSync(packageJsonPath))))
           parentPath == Dirname(currentPath)
       IN  IF ExistsSync(packageJsonPath)
           THEN Returned(packageJsonPath, calls1)
           ELSE FindPackageJsonLoop_NoRootBreak(startPath, maxUpwardSteps, parentPath,
                                                i + 1, calls1)
  ELSE Threw(Err(<<"Could not find package.json within N directory levels from">>,
                 maxUpwardSteps, startPath, <<>>), calls)

RECURSIVE FindPackageJsonLoop(_, _, _, _, _)
FindPackageJsonLoop(startPath, maxUpwardSteps, currentPath, i, calls) ==
  IF i < maxUpwardSteps
  THEN LET packageJsonPath == Join(currentPath, <<PackageJsonName>>)
           calls1 == Append(calls, Call("existsSync", packageJsonPath,
                                        Bool(ExistsSync(packageJsonPath))))
           parentPath == Dirname(currentPath)
       IN  IF ExistsSync(packageJsonPath)
           THEN Returned(packageJsonPath, calls1)
           ELSE IF parentPath = currentPath
           THEN Threw(Err(<<"Could not find package.json within N directory levels from">>,
                          maxUpwardSteps, startPath, <<>>), calls1)
           ELSE FindPackageJsonLoop(startPath, maxUpwardSteps, parentPath, i + 1, calls1)
  ELSE Threw(Err(<<"Could not find package.json within N directory levels from">>,
                 maxUpwardSteps, startPath, <<>>), calls)

findPackageJson(startPath, maxUpwardSteps) ==
  FindPackageJsonLoop(startPath, maxUpwardSteps, startPath, 0, <<>>)

findPackageRoot(maxUpwardSteps) ==
  LET ourScriptDirectory == Dirname(ourScriptPath)
      found == findPackageJson(ourScriptDirectory, maxUpwardSteps)
  IN  IF found.threw THEN found
      ELSE Returned(Dirname(found.value[1]), found.calls)

\* a bug: of several addon files the first one is taken
findAddonInAddonFolder_FirstWins(addonFolderPath, listingRaises) ==
  LET raises == listingRaises \/ ~ExistsSync(addonFolderPath)
      calls == <<Call("readdirSync", addonFolderPath,
                      IF raises THEN "raised" ELSE "listed")>>
      entries == ReaddirSync(addonFolderPath)
      addonEntries == SelectSeq(entries, LAMBDA entry : EndsWith(entry, NodeSuffix))
  IN  IF raises
      THEN Threw(ListingError(addonFolderPath), calls)
      ELSE IF Len(addonEntries) = 0
      THEN Threw(Err(<<"no .node addon file found in build folder">>, 0,
                     addonFolderPath, <<>>), calls)
      ELSE Returned(addonEntries[1], calls)

\* a bug: the listing is not filtered by the ".node" suffix
findAddonInAddonFolder_AnySuffix(addonFolderPath, listingRaises) ==
  LET raises == listingRaises \/ ~ExistsSync(addonFolderPath)
      calls == <<Call("readdirSync", addonFolderPath,
                      IF raises THEN "raised" ELSE "listed")>>
      addonEntries == ReaddirSync(addonFolderPath)
  IN  IF raises
      THEN Threw(ListingError(addonFolderPath), calls)
      ELSE IF Len(addonEntries) = 0
      THEN Threw(Err(<<"no .node addon file found in build folder">>, 0,
                     addonFolderPath, <<>>), calls)
      ELSE IF Len(addonEntries) > 1
      THEN Threw(Err(<<"multiple .node addon files found in build folder, cannot determine which to load">>,
                     0, addonFolderPath, <<>>), calls)
      ELSE Returned(addonEntries[1], calls)

findAddonInAddonFolder(addonFolderPath, listingRaises) ==
  LET raises == listingRaises \/ ~ExistsSync(addonFolderPath)
      calls == <<Call("readdirSync", addonFolderPath,
                      IF raises THEN "raised" ELSE "listed")>>
      entries == ReaddirSync(addonFolderPath)
      addonEntries == SelectSeq(entries, LAMBDA entry : EndsWith(entry, NodeSuffix))
  IN  IF raises
      THEN Threw(ListingError(addonFolderPath), calls)
      ELSE IF Len(addonEntries) = 0
      THEN Threw(Err(<<"no .node addon file found in build folder">>, 0,
                     addonFolderPath, <<>>), calls)
      ELSE IF Len(addonEntries) > 1
      THEN Threw(Err(<<"multiple .node addon files found in build folder, cannot determine which to load">>,
                     0, addonFolderPath, <<>>), calls)
      ELSE Returned(addonEntries[1], calls)

assertOnlyOneOfDebugOrReleaseExists(debugFolderExists, releaseFolderExists) ==
  IF debugFolderExists /\ releaseFolderExists
  THEN <<Err(<<"both Debug and Release build folders exist, please remove one to avoid ambiguity">>,
             0, Root, <<>>)>>
  ELSE <<>>

assertAtLeastOneOfDebugOrReleaseExists(debugFolderExists, releaseFolderExists) ==
  IF ~debugFolderExists /\ ~releaseFolderExists
  THEN <<Err(<<"neither Debug nor Release build folders found, make sure to build the native addon first">>,
             0, Root, <<>>)>>
  ELSE <<>>

\* a bug: the assertion's error is thrown as it is, not wrapped
determineReleaseOrDebugFolder_Unwrapped(buildFolderPath) ==
  LET debugFolderPath == Join(buildFolderPath, <<DebugName>>)
      releaseFolderPath == Join(buildFolderPath, <<ReleaseName>>)
      debugFolderExists == ExistsSync(debugFolderPath)
      releaseFolderExists == ExistsSync(releaseFolderPath)
      calls == <<Call("existsSync", debugFolderPath, Bool(debugFolderExists)),
                 Call("existsSync", releaseFolderPath, Bool(releaseFolderExists))>>
      atLeastOne == assertAtLeastOneOfDebugOrReleaseExists(debugFolderExists, releaseFolderExists)
      onlyOne == assertOnlyOneOfDebugOrReleaseExists(debugFolderExists, releaseFolderExists)
      ex == IF atLeastOne # <<>> THEN atLeastOne ELSE onlyOne
  IN  IF ex # <<>>
      THEN Threw(ex[1], calls)
      ELSE Returned(IF releaseFolderExists THEN releaseFolderPath ELSE debugFolderPath, calls)

determineReleaseOrDebugFolder(buildFolderPath) ==
  LET debugFolderPath == Join(buildFolderPath, <<DebugName>>)
      releaseFolderPath == Join(buildFolderPath, <<ReleaseName>>)
      debugFolderExists == ExistsSync(debugFolderPath)
      releaseFolderExists == ExistsSync(releaseFolderPath)
      calls == <<Call("existsSync", debugFolderPath, Bool(debugFolderExists)),
                 Call("existsSync", releaseFolderPath, Bool(releaseFolderExists))>>
      atLeastOne == assertAtLeastOneOfDebugOrReleaseExists(debugFolderExists, releaseFolderExists)
      onlyOne == assertOnlyOneOfDebugOrReleaseExists(debugFolderExists, releaseFolderExists)
      ex == IF atLeastOne # <<>> THEN atLeastOne ELSE onlyOne
  IN  IF ex # <<>>
      THEN Threw(Err(<<"invalid build folder structure at">>, 0, buildFolderPath, ex), calls)
      ELSE Returned(IF releaseFolderExists THEN releaseFolderPath ELSE debugFolderPath, calls)

\* a bug: the file name is handed over without its folder
loadAddonFromFolder_Unresolved(addonFolderPath, listingRaises, loadOutcome) ==
  LET found == findAddonInAddonFolder(addonFolderPath, listingRaises)
  IN  IF found.threw THEN found
      ELSE LET addonFilePath == <<found.value[1]>>
               calls == Append(found.calls,
                               Call("loadAddonAtPath", addonFilePath,
                                    IF loadOutcome.threw THEN "threw"
                                    ELSE loadOutcome.handle))
           IN  IF loadOutcome.threw
               THEN Threw(LoadError(addonFilePath), calls)
               ELSE Returned(loadOutcome.handle, calls)

\* a bug: the load is attempted on the folder when no addon file was resolved
loadAddonFromFolder_LoadsAnyway(addonFolderPath, listingRaises, loadOutcome) ==
  LET found == findAddonInAddonFolder(addonFolderPath, listingRaises)
      addonFilePath == IF found.threw THEN addonFolderPath
                       ELSE Resolve(addonFolderPath, found.value[1])
      calls == Append(found.calls,
                      Call("loadAddonAtPath", addonFilePath,
                           IF loadOutcome.threw \/ found.threw THEN "threw"
                           ELSE loadOutcome.handle))
  IN  IF found.threw THEN Threw(found.error[1], calls)
      ELSE IF loadOutcome.threw
      THEN Threw(LoadError(addonFilePath), calls)
      ELSE Returned(loadOutcome.handle, calls)

loadAddonFromFolder(addonFolderPath, listingRaises, loadOutcome) ==
  LET found == findAddonInAddonFolder(addonFolderPath, listingRaises)
  IN  IF found.threw THEN found
      ELSE LET addonFilePath == Resolve(addonFolderPath, found.value[1])
               calls == Append(found.calls,
                               Call("loadAddonAtPath", addonFilePath,
                                    IF loadOutcome.threw THEN "threw"
                                    ELSE loadOutcome.handle))
           IN  IF loadOutcome.threw
               THEN Threw(LoadError(addonFilePath), calls)
               ELSE Returned(loadOutcome.handle, calls)

\* the budget loadRelativeToPackageRoot gives findPackageRoot
MaxUpwardSteps == 10

\* let message = ...; message += ...; message += ...
PackageRootMessage ==
  << "could not find our package root",
     ", make sure to keep the package structure intact when distributing the package",
     " - a package.json and built addon at ./build are required" >>

\* a bug: the cause is dropped
PackageRootError_NoCause(err) == Err(PackageRootMessage, 0, Root, <<>>)

\* throw Error(message, { cause: err })
PackageRootError(err) == Err(PackageRootMessage, 0, Root, <<err>>)

\* a bug: the build folder is never checked
BuildFolderMissing_Never(buildFolderPath) == FALSE

\* if (!systemInterface.fileSystem.existsSync(buildFolderPath))
BuildFolderMissing(buildFolderPath) == ~ExistsSync(buildFolderPath)

loadRelativeToPackageRoot(relativeBuildFolderPath, listingRaises, loadOutcome) ==
  LET root == findPackageRoot(MaxUpwardSteps)
  IN  IF root.threw
      THEN Threw(PackageRootError(root.error[1]), root.calls)
      ELSE
        LET packageRoot == root.value[1]
            buildFolderPath == Join(packageRoot, relativeBuildFolderPath)
            calls1 == Append(root.calls, Call("existsSync", buildFolderPath,
                                              Bool(ExistsSync(buildFolderPath))))
        IN  IF BuildFolderMissing(buildFolderPath)
            THEN Threw(Err(<<"no build folder found at our package root, make sure to build the native addon first">>,
                           0, buildFolderPath, <<>>), calls1)
            ELSE
              LET folder == determineReleaseOrDebugFolder(buildFolderPath)
              IN  IF folder.threw
                  THEN Threw(folder.error[1], calls1 \o folder.calls)
                  ELSE LET native == loadAddonFromFolder(folder.value[1], listingRaises, loadOutcome)
                       IN  [native EXCEPT !.calls = calls1 \o folder.calls \o native.calls]

----------------------------------------------------------------------------
(* The loader's callers and the filesystem around it *)

ScriptName == <<"x", ".ts">>

\* how deep below the root the script's directory lies (ourScriptPath is an
\* absolute path, as fileURLToPath(import.meta.url) is): next to the package
\* root, and one level deeper than the budget reaches
ScriptDirDepths == {2, MaxUpwardSteps + 1}

\* the build folders a caller asks for
RelativeBuildFolderPaths == { <<Name("build")>>, <<DotDot, Name("build")>> }

NoCall ==
  [called |-> FALSE, arg |-> <<>>, threw |-> FALSE, value |-> <<>>,
   error |-> <<>>, calls |-> <<>>]

CallRecord(arg, outcome) ==
  [called |-> TRUE, arg |-> arg, threw |-> outcome.threw, value |-> outcome.value,
   error |-> outcome.error, calls |-> outcome.calls]

\* the invocations of loadAddonAtPath among the capability calls of one call
LoadInvocations(calls) == SelectSeq(calls, LAMBDA c : c.op = "loadAddonAtPath")

InitLoader ==
  /\ ourScriptPath \in { Append(DirAtDepth(n), ScriptName) : n \in ScriptDirDepths }
  /\ fs \in { files \in SUBSET Universe : ParentClosed(files) }
  /\ last = NoCall
  /\ nCalls = 0
  /\ nReturned = 0
  /\ nThrew = 0
  /\ nLoads = 0

\* a file or a directory appears, with the directories above it (the filesystem
\* is followed as long as calls are still to come)
CreatePath(p) ==
  /\ nCalls < MaxCalls
  /\ p \notin fs
  /\ fs' = fs \cup { q \in Universe : IsPrefix(q, p) }
  /\ UNCHANGED <<ourScriptPath, last, nCalls, nReturned, nThrew, nLoads, findLast, guardVars, formatLast>>

\* a file or a directory disappears, with everything below it
RemovePath(p) ==
  /\ nCalls < MaxCalls
  /\ p \in fs
  /\ fs' = { q \in fs : ~IsPrefix(p, q) }
  /\ UNCHANGED <<ourScriptPath, last, nCalls, nReturned, nThrew, nLoads, findLast, guardVars, formatLast>>

\* a bug: a loader that keeps the addon it loaded and hands it out again
LoadRelativeToPackageRootCall_Cached ==
  /\ nCalls < MaxCalls
  /\ \E relativeBuildFolderPath \in RelativeBuildFolderPaths,
        listingRaises \in BOOLEAN, loadOutcome \in LoadOutcomes :
       LET cached == last.called /\ ~last.threw
           outcome == IF cached
                      THEN [threw |-> FALSE, value |-> last.value, error |-> <<>>,
                            calls |-> <<>>]
                      ELSE loadRelativeToPackageRoot(relativeBuildFolderPath,
                                                     listingRaises, loadOutcome)
       IN  /\ last' = CallRecord(relativeBuildFolderPath, outcome)
           /\ nCalls' = nCalls + 1
           /\ nReturned' = IF outcome.threw THEN nReturned ELSE nReturned + 1
           /\ nThrew' = IF outcome.threw THEN nThrew + 1 ELSE nThrew
           /\ nLoads' = nLoads + Len(LoadInvocations(outcome.calls))
  /\ UNCHANGED <<ourScriptPath, fs, findLast, guardVars, formatLast>>

\* one call of loader.loadRelativeToPackageRoot({ relativeBuildFolderPath })
LoadRelativeToPackageRootCall ==
  /\ nCalls < MaxCalls
  /\ \E relativeBuildFolderPath \in RelativeBuildFolderPaths,
        listingRaises \in BOOLEAN, loadOutcome \in LoadOutcomes :
       LET outcome == loadRelativeToPackageRoot(relativeBuildFolderPath,
                                                listingRaises, loadOutcome)
       IN  /\ last' = CallRecord(relativeBuildFolderPath, outcome)
           /\ nCalls' = nCalls + 1
           /\ nReturned' = IF outcome.threw THEN nReturned ELSE nReturned + 1
           /\ nThrew' = IF outcome.threw THEN nThrew + 1 ELSE nThrew
           /\ nLoads' = nLoads + Len(LoadInvocations(outcome.calls))
  /\ UNCHANGED <<ourScriptPath, fs, findLast, guardVars, formatLast>>

\* one call of findPackageRoot({ maxUpwardSteps })
FindPackageRootCall ==
  /\ \E maxUpwardSteps \in 0..MaxSteps :
       findLast' = CallRecord(<<maxUpwardSteps>>, findPackageRoot(maxUpwardSteps))
  /\ UNCHANGED <<loaderVars, guardVars, formatLast>>

----------------------------------------------------------------------------
(* createGarbageCollectionGuard *)

Records == {"r1", "r2"}
Infos == {"infoA", "infoB"}
Errors == {"error1", "error2"}

\* a cell of the FinalizationRegistry: register(target, heldValue, unregisterToken)
Cell(target, heldValue, unregisterToken) ==
  [target |-> target, heldValue |-> heldValue, unregisterToken |-> unregisterToken]

\* FinalizationRegistry.prototype.register
Register(cells, target, heldValue, unregisterToken) ==
  cells \cup {Cell(target, heldValue, unregisterToken)}

\* FinalizationRegistry.prototype.unregister: drops every cell of the token
Unregister(cells, unregisterToken) ==
  { c \in cells : c.unregisterToken # unregisterToken }

\* a bug: the guard tracks the handle object, so that a record counts as
\* unreachable once its handle is dropped
Reachable_HandleOnly(r) ==
  \/ r \in handleHeld
  \/ \E i \in 1..Len(stack) : stack[i] = r

\* a release function is reachable through the handle, through a direct
\* reference, or because a call of it is running
Reachable(r) ==
  \/ r \in handleHeld
  \/ r \in fnHeld
  \/ \E i \in 1..Len(stack) : stack[i] = r

InitGuard ==
  /\ protected = {}
  /\ info = [r \in Records |-> "infoA"]
  /\ handleHeld = {}
  /\ fnHeld = {}
  /\ collected = {}
  /\ registry = {}
  /\ stack = <<>>
  /\ releaseCalls = [r \in Records |-> 0]
  /\ callbackCalls = [r \in Records |-> 0]
  /\ releaseReturns = [r \in Records |-> 0]
  /\ createErrorCalls = <<>>
  /\ uncaught = <<>>

\* a bug: the cell is registered without an unregister token
protect_NoToken(r, i) ==
  /\ r \notin protected
  /\ protected' = protected \cup {r}
  /\ info' = [info EXCEPT ![r] = i]
  /\ registry' = Register(registry, r, i, "undefined")
  /\ handleHeld' = handleHeld \cup {r}
  /\ UNCHANGED <<fnHeld, collected, stack, releaseCalls, callbackCalls,
                 releaseReturns, createErrorCalls, uncaught>>
  /\ UNCHANGED <<loaderVars, findLast, formatLast>>

\* gcGuard.protect({ release, info }): registers the new release function as the
\* target and as the unregister token, info as the held value; returns { release }
protect(r, i) ==
  /\ r \notin protected
  /\ protected' = protected \cup {r}
  /\ info' = [info EXCEPT ![r] = i]
  /\ registry' = Register(registry, r, i, r)
  /\ handleHeld' = handleHeld \cup {r}
  /\ UNCHANGED <<fnHeld, collected, stack, releaseCalls, callbackCalls,
                 releaseReturns, createErrorCalls, uncaught>>
  /\ UNCHANGED <<loaderVars, findLast, formatLast>>

\* the program takes the release function out of the handle
KeepReleaseFunction(r) ==
  /\ r \in handleHeld
  /\ r \notin fnHeld
  /\ fnHeld' = fnHeld \cup {r}
  /\ UNCHANGED <<protected, info, handleHeld, collected, registry, stack, releaseCalls,
                 callbackCalls, releaseReturns, createErrorCalls, uncaught>>
  /\ UNCHANGED <<loaderVars, findLast, formatLast>>

\* the program drops the handle object
DropHandle(r) ==
  /\ r \in handleHeld
  /\ handleHeld' = handleHeld \ {r}
  /\ UNCHANGED <<protected, info, fnHeld, collected, registry, stack, releaseCalls,
                 callbackCalls, releaseReturns, createErrorCalls, uncaught>>
  /\ UNCHANGED <<loaderVars, findLast, formatLast>>

\* the program drops its direct reference to the release function
DropReleaseFunction(r) ==
  /\ r \in fnHeld
  /\ fnHeld' = fnHeld \ {r}
  /\ UNCHANGED <<protected, info, handleHeld, collected, registry, stack, releaseCalls,
                 callbackCalls, releaseReturns, createErrorCalls, uncaught>>
  /\ UNCHANGED <<loaderVars, findLast, formatLast>>

\* a bug (or a fix that was never made): a release() that guards against a
\* second call and invokes the callback only the first time
ReleaseCall_Idempotent(r) ==
  /\ r \in handleHeld \cup fnHeld
  /\ releaseCalls[r] < MaxReleases
  /\ releaseCalls' = [releaseCalls EXCEPT ![r] = @ + 1]
  /\ callbackCalls' = [callbackCalls EXCEPT ![r] = IF @ = 0 THEN 1 ELSE @]
  /\ stack' = Append(stack, r)
  /\ UNCHANGED <<protected, info, handleHeld, fnHeld, collected, registry,
                 releaseReturns, createErrorCalls, uncaught>>
  /\ UNCHANGED <<loaderVars, findLast, formatLast>>

\* release() is called and calls providedRelease(), the caller's code
ReleaseCall(r) ==
  /\ r \in handleHeld \cup fnHeld
  /\ releaseCalls[r] < MaxReleases
  /\ releaseCalls' = [releaseCalls EXCEPT ![r] = @ + 1]
  /\ callbackCalls' = [callbackCalls EXCEPT ![r] = @ + 1]
  /\ stack' = Append(stack, r)
  /\ UNCHANGED <<protected, info, handleHeld, fnHeld, collected, registry,
                 releaseReturns, createErrorCalls, uncaught>>
  /\ UNCHANGED <<loaderVars, findLast, formatLast>>

\* a bug: release() returns without unregistering
ReleaseReturn_NoUnregister ==
  /\ stack # <<>>
  /\ LET r == stack[Len(stack)]
     IN  releaseReturns' = [releaseReturns EXCEPT ![r] = @ + 1]
  /\ stack' = SubSeq(stack, 1, Len(stack) - 1)
  /\ UNCHANGED <<protected, info, handleHeld, fnHeld, collected, registry, releaseCalls,
                 callbackCalls, createErrorCalls, uncaught>>
  /\ UNCHANGED <<loaderVars, findLast, formatLast>>

\* providedRelease() returned: release() unregisters its token and returns
ReleaseReturn ==
  /\ stack # <<>>
  /\ LET r == stack[Len(stack)]
     IN  /\ registry' = Unregister(registry, r)
         /\ releaseReturns' = [releaseReturns EXCEPT ![r] = @ + 1]
  /\ stack' = SubSeq(stack, 1, Len(stack) - 1)
  /\ UNCHANGED <<protected, info, handleHeld, fnHeld, collected, releaseCalls,
                 callbackCalls, createErrorCalls, uncaught>>
  /\ UNCHANGED <<loaderVars, findLast, formatLast>>

\* a bug: release() unregisters in a finally block, also when the callback threw
ReleaseThrow_Unregisters ==
  /\ stack # <<>>
  /\ registry' = Unregister(registry, stack[Len(stack)])
  /\ stack' = SubSeq(stack, 1, Len(stack) - 1)
  /\ UNCHANGED <<protected, info, handleHeld, fnHeld, collected, releaseCalls,
                 callbackCalls, releaseReturns, createErrorCalls, uncaught>>
  /\ UNCHANGED <<loaderVars, findLast, formatLast>>

\* providedRelease() threw: release() ends there, nothing is unregistered
ReleaseThrow ==
  /\ stack # <<>>
  /\ stack' = SubSeq(stack, 1, Len(stack) - 1)
  /\ UNCHANGED <<protected, info, handleHeld, fnHeld, collected, registry, releaseCalls,
                 callbackCalls, releaseReturns, createErrorCalls, uncaught>>
  /\ UNCHANGED <<loaderVars, findLast, formatLast>>

\* the collector reclaims a release function nothing reaches any more
Reclaim(r) ==
  /\ r \in protected
  /\ r \notin collected
  /\ ~Reachable(r)
  /\ collected' = collected \cup {r}
  /\ UNCHANGED <<protected, info, handleHeld, fnHeld, registry, stack, releaseCalls,
                 callbackCalls, releaseReturns, createErrorCalls, uncaught>>
  /\ UNCHANGED <<loaderVars, findLast, formatLast>>

\* a bug: the callback throws an error of its own, not the one createError made
FinalizationCallback_OwnError(heldValue, target, returned) ==
  /\ createErrorCalls' = Append(createErrorCalls,
                                [info |-> heldValue, target |-> target, returned |-> returned])
  /\ uncaught' = Append(uncaught, [target |-> target, error |-> "error1"])

\* what the registry's callback does with a held value: throw createError({ info })
FinalizationCallback(heldValue, target, returned) ==
  /\ createErrorCalls' = Append(createErrorCalls,
                                [info |-> heldValue, target |-> target, returned |-> returned])
  /\ uncaught' = Append(uncaught, [target |-> target, error |-> returned])

\* the host runs the registry's callback for a cell whose target was reclaimed;
\* it does so between jobs, never while a call is running
Finalize(cell) ==
  /\ cell \in registry
  /\ cell.target \in collected
  /\ stack = <<>>
  /\ registry' = registry \ {cell}
  /\ \E returned \in Errors : FinalizationCallback(cell.heldValue, cell.target, returned)
  /\ UNCHANGED <<protected, info, handleHeld, fnHeld, collected, stack, releaseCalls,
                 callbackCalls, releaseReturns>>
  /\ UNCHANGED <<loaderVars, findLast, formatLast>>

\* the loader at rest, for the specifications of the guard
IdleLoader ==
  /\ ourScriptPath = Append(LibDir, ScriptName)
  /\ fs = {}
  /\ last = NoCall
  /\ nCalls = 0
  /\ nReturned = 0
  /\ nThrew = 0
  /\ nLoads = 0
  /\ findLast = NoCall

GuardInit ==
  /\ IdleLoader
  /\ InitGuard
  /\ formatLast = NoCall

GuardNext ==
  \/ \E r \in Records, i \in Infos : protect(r, i)
  \/ \E r \in Records : KeepReleaseFunction(r)
  \/ \E r \in Records : DropHandle(r)
  \/ \E r \in Records : DropReleaseFunction(r)
  \/ \E r \in Records : ReleaseCall(r)
  \/ ReleaseReturn
  \/ ReleaseThrow
  \/ \E r \in Records : Reclaim(r)
  \/ \E cell \in registry : Finalize(cell)

GuardSpec == GuardInit /\ [][GuardNext]_vars

----------------------------------------------------------------------------
(* formatPointer.  A bigint is a sign and a magnitude; the magnitude is the  *)
(* sequence of its limbs in base 2^16, most significant first, without       *)
(* leading zero limbs: 0 is <<>>, 42 is <<42>>, 2^64 is <<1, 0, 0, 0, 0>>.   *)
(* A string is the sequence of its characters.                               *)

LimbBase == 16 * 16 * 16 * 16

BigInt(neg, limbs) == [neg |-> neg, limbs |-> limbs]

RECURSIVE StripLeading(_, _)
StripLeading(seq, x) ==
  IF seq # <<>> /\ Head(seq) = x THEN StripLeading(Tail(seq), x) ELSE seq

RECURSIVE Repeat(_, _)
Repeat(x, n) == IF n <= 0 THEN <<>> ELSE <<x>> \o Repeat(x, n - 1)

LowerHexDigits ==
  <<"0", "1", "2", "3", "4", "5", "6", "7", "8", "9", "a", "b", "c", "d", "e", "f">>

UpperHexDigits ==
  <<"0", "1", "2", "3", "4", "5", "6", "7", "8", "9", "A", "B", "C", "D", "E", "F">>

\* the value of a hexadecimal digit of either case
DigitValue(c) ==
  CHOOSE n \in 0..15 : LowerHexDigits[n + 1] = c \/ UpperHexDigits[n + 1] = c

\* BigInt("0x" + digits): four digits make a limb
RECURSIVE LimbsOfHex(_)
LimbsOfHex(digits) ==
  IF digits = <<>> THEN <<>>
  ELSE <<((DigitValue(digits[1]) * 16 + DigitValue(digits[2])) * 16
            + DigitValue(digits[3])) * 16 + DigitValue(digits[4])>>
       \o LimbsOfHex(SubSeq(digits, 5, Len(digits)))

BigIntFromHex(digits) ==
  LET padded == Repeat("0", (4 - (Len(digits) % 4)) % 4) \o digits
  IN  BigInt(FALSE, StripLeading(LimbsOfHex(padded), 0))

MAX_64BIT ==
  BigIntFromHex(<<"F", "F", "F", "F", "F", "F", "F", "F",
                  "F", "F", "F", "F", "F", "F", "F", "F">>)

\* a < b on magnitudes: the shorter is the smaller, else the first differing limb
RECURSIVE LimbsLess(_, _)
LimbsLess(a, b) ==
  IF Len(a) # Len(b) THEN Len(a) < Len(b)
  ELSE IF a = <<>> THEN FALSE
  ELSE IF Head(a) # Head(b) THEN Head(a) < Head(b)
  ELSE LimbsLess(Tail(a), Tail(b))

\* a < b on bigints
LessThan(a, b) ==
  IF a.neg # b.neg THEN a.neg
  ELSE IF a.neg THEN LimbsLess(b.limbs, a.limbs)
  ELSE LimbsLess(a.limbs, b.limbs)

\* the four hexadecimal digits of one limb
LimbToString16(limb) ==
  << LowerHexDigits[(limb \div (16 * 16 * 16)) + 1],
     LowerHexDigits[((limb \div (16 * 16)) % 16) + 1],
     LowerHexDigits[((limb \div 16) % 16) + 1],
     LowerHexDigits[(limb % 16) + 1] >>

RECURSIVE LimbsToString16(_)
LimbsToString16(limbs) ==
  IF limbs = <<>> THEN <<>>
  ELSE LimbToString16(Head(limbs)) \o LimbsToString16(Tail(limbs))

\* bigint.toString(16): lower-case digits, no leading zeros, "-" when negative
ToString16(a) ==
  LET digits == StripLeading(LimbsToString16(a.limbs), "0")
  IN  IF digits = <<>> THEN <<"0">>
      ELSE IF a.neg THEN <<"-">> \o digits
      ELSE digits

\* a bug: the digits keep their case
ToUpperCase_KeepsCase(str) == str

UpperChar(c) ==
  IF \E n \in 1..16 : LowerHexDigits[n] = c
  THEN UpperHexDigits[CHOOSE n \in 1..16 : LowerHexDigits[n] = c]
  ELSE c

RECURSIVE ToUpperCase(_)
ToUpperCase(str) ==
  IF str = <<>> THEN <<>> ELSE <<UpperChar(Head(str))>> \o ToUpperCase(Tail(str))

PadStart(str, targetLength, fill) ==
  Repeat(fill, targetLength - Len(str)) \o str

\* a bug: the largest 64-bit address is refused too
ExceedsMax64Bit_Inclusive(pointerAddress) == ~LessThan(pointerAddress, MAX_64BIT)

\* pointerAddress > MAX_64BIT
ExceedsMax64Bit(pointerAddress) == LessThan(MAX_64BIT, pointerAddress)

InvalidPointerAddress(cause) ==
  Err(<<"invalid pointer address">>, 0, Root, <<Err(<<cause>>, 0, Root, <<>>)>>)

formatPointer(pointerAddress) ==
  IF LessThan(pointerAddress, BigInt(FALSE, <<>>))
  THEN Threw(InvalidPointerAddress("pointer address cannot be negative"), <<>>)
  ELSE IF ExceedsMax64Bit(pointerAddress)
  THEN Threw(InvalidPointerAddress("pointer address exceeds 64-bit range"), <<>>)
  ELSE LET hexString == ToUpperCase(ToString16(pointerAddress))
           paddedHexString == PadStart(hexString, 16, "0")
       IN  Returned(<<"0", "x">> \o paddedHexString, <<>>)

\* the limbs the callers' addresses are made of: 0, 1, 0x002A, 0xABCD, 0xFFFF
LimbValues == {0, 1, 42, 43981, LimbBase - 1}

RECURSIVE LimbSeqs(_)
LimbSeqs(n) ==
  IF n = 0 THEN {<<>>}
  ELSE { <<limb>> \o rest : limb \in LimbValues, rest \in LimbSeqs(n - 1) }

\* the addresses formatPointer is called with: every sign, up to MaxLimbs limbs
PointerAddresses ==
  { BigInt(neg, limbs) :
      neg \in BOOLEAN,
      limbs \in { l \in UNION { LimbSeqs(n) : n \in 0..MaxLimbs } :
                    l = <<>> \/ Head(l) # 0 } }
  \ { BigInt(TRUE, <<>>) }

\* a caller about to call formatPointer with pointerAddress
FormatPending(pointerAddress) ==
  [called |-> FALSE, arg |-> <<pointerAddress>>, threw |-> FALSE, value |-> <<>>,
   error |-> <<>>, calls |-> <<>>]

FormatPointerCall ==
  /\ LET pointerAddress == formatLast.arg[1]
     IN  formatLast' = CallRecord(<<pointerAddress>>, formatPointer(pointerAddress))
  /\ UNCHANGED <<loaderVars, findLast, guardVars>>

FormatInit ==
  /\ IdleLoader
  /\ InitGuard
  /\ \E pointerAddress \in PointerAddresses : formatLast = FormatPending(pointerAddress)

FormatNext == FormatPointerCall

FormatSpec == FormatInit /\ [][FormatNext]_vars

----------------------------------------------------------------------------
(* The specifications of the loader *)

Init ==
  /\ InitLoader
  /\ findLast = NoCall
  /\ InitGuard
  /\ formatLast = NoCall

Next ==
  \/ \E p \in Universe : CreatePath(p)
  \/ \E p \in Universe : RemovePath(p)
  \/ LoadRelativeToPackageRootCall

Spec == Init /\ [][Next]_vars

\* the package root resolver alone, under every budget
FindNext ==
  \/ \E p \in Universe : CreatePath(p)
  \/ \E p \in Universe : RemovePath(p)
  \/ FindPackageRootCall

FindSpec == Init /\ [][FindNext]_vars

----------------------------------------------------------------------------
(* What the claims speak of, stated on the filesystem itself *)

StartDir == Dirname(ourScriptPath)

\* the d-th ancestor of a directory: its first Len(dir) - d segments
Ancestor(dir, d) == SubSeq(dir, 1, Len(dir) - d)

HasManifest(dir) == Append(dir, PackageJsonName) \in fs

\* the d for which the d-th ancestor of the starting directory holds a manifest
ManifestDepths ==
  LET start == StartDir
  IN  { d \in 0..Len(start) : HasManifest(Ancestor(start, d)) }

NearestDepth ==
  LET depths == ManifestDepths
  IN  CHOOSE d \in depths : \A e \in depths : d <= e

\* loadRelativeToPackageRoot finds its package root
RootResolves == \E d \in ManifestDepths : d < 10

PackageRootDir == Ancestor(StartDir, NearestDepth)

BuildFolderOf(rel) ==
  IF Head(rel) = DotDot THEN Dirname(PackageRootDir) \o Tail(rel)
  ELSE PackageRootDir \o rel

VariantDirsOf(build) == { Append(build, DebugName), Append(build, ReleaseName) } \cap fs

EntriesOf(dir) == { p \in fs : p # Root /\ Dirname(p) = dir }

AddonFilesOf(dir) ==
  { p \in EntriesOf(dir) : LET name == p[Len(p)] IN name[Len(name)] = ".node" }

TheOne(S) == CHOOSE x \in S : TRUE

IsLoadCallStep == nCalls' = nCalls + 1

ListingRaised(calls) ==
  \E i \in 1..Len(calls) : calls[i].op = "readdirSync" /\ calls[i].result = "raised"

CallsOf(calls, op) == SelectSeq(calls, LAMBDA c : c.op = op)

ManifestNotFound(n, start) ==
  Err(<<"Could not find package.json within N directory levels from">>, n, start, <<>>)

----------------------------------------------------------------------------
(* The claims about the loader *)

\* C1: when the package root resolves, the build folder exists, exactly one of
\* Debug / Release exists and that folder lists exactly one entry ending in
\* ".node", loadAddonAtPath is invoked exactly once, with the path
\* <packageRoot>/<relativeBuildFolderPath>/<variant>/<entry>, and the call
\* ends as the capability did: it returns the capability's result unmodified.
C1_LoadsTheOneAddon ==
  [][ ( IsLoadCallStep /\ RootResolves )
      => LET build == BuildFolderOf(last'.arg)
             variants == VariantDirsOf(build)
             addons == AddonFilesOf(TheOne(variants))
             loads == LoadInvocations(last'.calls)
         IN  ( /\ build \in fs
               /\ Cardinality(variants) = 1
               /\ Cardinality(addons) = 1
               /\ ~ListingRaised(last'.calls) )
             => /\ Len(loads) = 1
                /\ loads[1].path = TheOne(addons)
                /\ loads[1].result # "threw" =>
                     ~last'.threw /\ last'.value = <<loads[1].result>>
                /\ loads[1].result = "threw" => last'.threw
    ]_vars

C1_Witness ==
  /\ last.called
  /\ ~last.threw
  /\ last.value = <<"native1">>
  /\ Len(LoadInvocations(last.calls)) = 1
  /\ LoadInvocations(last.calls)[1].path =
       <<Name("p"), Name("build"), ReleaseName, <<"addon", ".node">> >>

BothVariantsError ==
  Err(<<"both Debug and Release build folders exist, please remove one to avoid ambiguity">>,
      0, Root, <<>>)

NeitherVariantError ==
  Err(<<"neither Debug nor Release build folders found, make sure to build the native addon first">>,
      0, Root, <<>>)

\* C5: when the build folder exists and both Debug and Release exist under it,
\* the call fails with "invalid build folder structure at <buildFolder>" whose
\* cause is the "both ... exist" error; when neither exists, with the same outer
\* error whose cause is the "neither ... found" error; no directory is listed.
C5_InvalidBuildStructure ==
  [][ ( IsLoadCallStep /\ RootResolves )
      => LET build == BuildFolderOf(last'.arg)
             variants == VariantDirsOf(build)
             cause == IF variants = {} THEN NeitherVariantError ELSE BothVariantsError
         IN  ( build \in fs /\ Cardinality(variants) # 1 )
             => /\ last'.threw
                /\ last'.error =
                     <<Err(<<"invalid build folder structure at">>, 0, build, <<cause>>)>>
                /\ CallsOf(last'.calls, "readdirSync") = <<>>
    ]_vars

C5_Witness ==
  /\ last.called
  /\ last.threw
  /\ last.error[1].msg = <<"invalid build folder structure at">>
  /\ last.error[1].path = <<Name("p"), Name("build")>>
  /\ last.error[1].cause = <<BothVariantsError>>

\* C6: when the resolved variant folder lists no entry ending in ".node" the
\* call fails with "no .node addon file found in build folder <dir>"; when it
\* lists two or more, with "multiple .node addon files found in build folder
\* <dir>, cannot determine which to load"; nothing is loaded in either case.
C6_NoneOrSeveralAddons ==
  [][ ( IsLoadCallStep /\ RootResolves )
      => LET build == BuildFolderOf(last'.arg)
             variants == VariantDirsOf(build)
             variant == TheOne(variants)
             addons == AddonFilesOf(variant)
             msg == IF addons = {}
                    THEN <<"no .node addon file found in build folder">>
                    ELSE <<"multiple .node addon files found in build folder, cannot determine which to load">>
         IN  ( /\ build \in fs
               /\ Cardinality(variants) = 1
               /\ Cardinality(addons) # 1
               /\ ~ListingRaised(last'.calls) )
             => /\ last'.threw
                /\ last'.error = <<Err(msg, 0, variant, <<>>)>>
                /\ LoadInvocations(last'.calls) = <<>>
    ]_vars

C6_Witness ==
  /\ last.called
  /\ last.threw
  /\ last.error[1].msg =
       <<"multiple .node addon files found in build folder, cannot determine which to load">>
  /\ last.error[1].path = <<Name("p"), Name("build"), ReleaseName>>
  /\ CallsOf(last.calls, "readdirSync") # <<>>

\* C7: when no manifest is found, the call fails with an error whose message
\* starts with "could not find our package root" and whose cause is the
\* manifest-not-found error for 10 levels from the script's directory; nothing
\* but package.json paths is looked at, whatever build folders exist.
C7_PackageRootNotFound ==
  [][ ( IsLoadCallStep /\ ~RootResolves )
      => /\ last'.threw
         /\ last'.error[1].msg[1] = "could not find our package root"
         /\ last'.error[1].cause = <<ManifestNotFound(10, StartDir)>>
         /\ \A i \in 1..Len(last'.calls) :
              /\ last'.calls[i].op = "existsSync"
              /\ last'.calls[i].path[Len(last'.calls[i].path)] = PackageJsonName
    ]_vars

C7_Witness ==
  /\ last.called
  /\ last.threw
  /\ last.error[1].msg[1] = "could not find our package root"
  /\ last.error[1].cause = <<ManifestNotFound(10, StartDir)>>
  /\ <<Name("p"), Name("build"), ReleaseName, <<"addon", ".node">> >> \in fs
  /\ <<Name("p"), Name("build"), DebugName>> \notin fs
  /\ <<Name("p"), PackageJsonName>> \in fs

\* C8: when the package root resolves and <packageRoot>/<relativeBuildFolderPath>
\* does not exist, the call fails with "no build folder found at our package root
\* <buildFolder>, make sure to build the native addon first", without a cause,
\* and the check of the build folder is the last thing the call looks at.
C8_NoBuildFolder ==
  [][ ( IsLoadCallStep /\ RootResolves )
      => LET build == BuildFolderOf(last'.arg)
             calls == last'.calls
         IN  build \notin fs
             => /\ last'.threw
                /\ last'.error =
                     <<Err(<<"no build folder found at our package root, make sure to build the native addon first">>,
                           0, build, <<>>)>>
                /\ calls[Len(calls)] = Call("existsSync", build, "false")
                /\ \A i \in 1..(Len(calls) - 1) :
                     /\ calls[i].op = "existsSync"
                     /\ calls[i].path[Len(calls[i].path)] = PackageJsonName
    ]_vars

C8_Witness ==
  /\ last.called
  /\ last.threw
  /\ last.error[1].msg =
       <<"no build folder found at our package root, make sure to build the native addon first">>
  /\ last.error[1].path = <<Name("p"), Name("lib"), Name("build")>>
  /\ last.error[1].cause = <<>>

\* C10, as claimed: after any sequence of calls, loadAddonAtPath has been invoked
\* exactly once per successful call and zero times per failed call.
C10_AsClaimed == nLoads = nReturned

\* C10, amended: every call re-runs the resolution against the filesystem as it
\* is at that call, starting at the script's directory, and invokes
\* loadAddonAtPath afresh: once per call that returns (whose result is that
\* invocation's), once per call that fails because loadAddonAtPath itself threw,
\* and not at all in a call that fails before it.
C10_NoStateBetweenCalls ==
  [][ IsLoadCallStep
      => LET calls == last'.calls
             loads == LoadInvocations(calls)
         IN  /\ Len(calls) >= 1
             /\ calls[1] = Call("existsSync", Append(StartDir, PackageJsonName),
                                Bool(HasManifest(StartDir)))
             /\ \A i \in 1..Len(calls) :
                  calls[i].op = "existsSync" =>
                    calls[i].result = Bool(calls[i].path \in fs)
             /\ Len(loads) <= 1
             /\ nLoads' = nLoads + Len(loads)
             /\ ~last'.threw => Len(loads) = 1 /\ last'.value = <<loads[1].result>>
             /\ (last'.threw /\ Len(loads) = 1) =>
                  /\ loads[1].result = "threw"
                  /\ last'.error = <<LoadError(loads[1].path)>>
    ]_vars

C10_Witness ==
  /\ nCalls = 2
  /\ nReturned = 1
  /\ nThrew = 1
  /\ nLoads = 2
  /\ last.threw
  /\ Len(LoadInvocations(last.calls)) = 1

\* C4: with a budget of N, a manifest in the d-th ancestor of the starting
\* directory (the nearest one) is found when N >= d, and the directory holding
\* it is returned; when N < d the search fails with "Could not find package.json
\* within N directory levels from <start>".
C4_FoundWithinBudget ==
  [][ ( findLast' # findLast /\ ManifestDepths # {} )
      => LET n == findLast'.arg[1]
             d == NearestDepth
         IN  /\ n >= d =>
                  ~findLast'.threw /\ findLast'.value = <<Ancestor(StartDir, d)>>
             /\ n < d =>
                  findLast'.threw /\ findLast'.error = <<ManifestNotFound(n, StartDir)>>
    ]_vars

----------------------------------------------------------------------------
(* The claims about the garbage collection guard *)

\* the leak signals raised for record r
SignalsOf(r) == SelectSeq(uncaught, LAMBDA u : u.target = r)

\* the calls of createError made for record r
CreateErrorCallsOf(r) == SelectSeq(createErrorCalls, LAMBDA c : c.target = r)

CellsOf(r) == { c \in registry : c.target = r }

InRelease(r) == \E i \in 1..Len(stack) : stack[i] = r

\* C2: once release() has returned for a record, the leak signal of that record
\* has not fired and cannot fire: no cell of the record is left in the registry,
\* whatever is reclaimed later; and while a release() of the record is running,
\* between the callback and the deregistration, its token is not reclaimed.
C2_ReleasedNeverSignals ==
  \A r \in Records :
    /\ releaseReturns[r] >= 1 => SignalsOf(r) = <<>> /\ CellsOf(r) = {}
    /\ InRelease(r) => r \notin collected /\ SignalsOf(r) = <<>>

C2_Witness ==
  \E r \in Records :
    /\ releaseReturns[r] = 1
    /\ r \in collected
    /\ \E q \in Records \ {r} : SignalsOf(q) # <<>>

\* C3: for a record release() was never called on, whose token was reclaimed:
\* until the finalizer has run its cell is registered with the record's own
\* info; once it has run, createError was called exactly once, with the
\* record's own info, and exactly one error was raised, the one createError
\* returned.  No record's signal fires twice.
C3_LeakSignalOnce ==
  /\ \A r \in Records :
       /\ Len(SignalsOf(r)) <= 1
       /\ Len(CreateErrorCallsOf(r)) = Len(SignalsOf(r))
       /\ (releaseCalls[r] = 0 /\ r \in collected) =>
            \/ /\ CellsOf(r) = {Cell(r, info[r], r)}
               /\ SignalsOf(r) = <<>>
            \/ /\ CellsOf(r) = {}
               /\ Len(SignalsOf(r)) = 1
  /\ Len(createErrorCalls) = Len(uncaught)
  /\ \A i \in 1..Len(createErrorCalls) :
       /\ createErrorCalls[i].info = info[createErrorCalls[i].target]
       /\ uncaught[i].target = createErrorCalls[i].target
       /\ uncaught[i].error = createErrorCalls[i].returned

C3_Witness ==
  /\ releaseCalls["r1"] = 0
  /\ "r1" \in collected
  /\ info["r1"] = "infoB"
  /\ "r2" \in protected
  /\ info["r2"] = "infoA"
  /\ createErrorCalls = <<[info |-> "infoB", target |-> "r1", returned |-> "error2"]>>
  /\ uncaught = <<[target |-> "r1", error |-> "error2"]>>

\* C9: every call of release() invokes the provided callback exactly once, so k
\* calls invoke it k times; a cell leaves the registry through release() only
\* when a call of release() on its record returns, after that call's callback.
C9_CallbackPerRelease ==
  [][ \A r \in Records :
        /\ callbackCalls'[r] = releaseCalls'[r]
        /\ releaseReturns'[r] <= callbackCalls'[r]
        /\ (CellsOf(r) # {} /\ CellsOf(r)' = {} /\ uncaught' = uncaught) =>
             /\ InRelease(r)
             /\ releaseReturns'[r] = releaseReturns[r] + 1
             /\ callbackCalls[r] >= releaseReturns'[r]
             /\ callbackCalls'[r] = callbackCalls[r]
    ]_vars

C9_Witness ==
  \E r \in Records :
    /\ releaseCalls[r] >= 2
    /\ callbackCalls[r] = releaseCalls[r]
    /\ releaseReturns[r] = releaseCalls[r]
    /\ stack = <<>>

----------------------------------------------------------------------------
(* The concrete scenario of the loader *)

\* the scenario: the script is /p/lib/x.ts, the only manifest at or below /p is
\* /p/package.json, /p/build holds Release alone and Release holds one file
ScenarioWith(file) ==
  /\ ourScriptPath = Append(LibDir, ScriptName)
  /\ ManifestDepths # {}
  /\ NearestDepth = 1
  /\ BuildDir \in fs
  /\ VariantDirsOf(BuildDir) = {ReleaseDir}
  /\ EntriesOf(ReleaseDir) = {Append(ReleaseDir, file)}

IsScenarioCall ==
  /\ IsLoadCallStep
  /\ last'.arg = <<Name("build")>>
  /\ ~ListingRaised(last'.calls)

\* C11, as claimed: in the scenario with /p/build/Release/addon.bin as the only
\* file of Release, the call invokes loadAddonAtPath with that path and returns
\* what it returned.
C11_AsClaimed ==
  [][ ( IsScenarioCall /\ ScenarioWith(AddonBin) )
      => LET loads == LoadInvocations(last'.calls)
         IN  /\ Len(loads) = 1
             /\ loads[1].path = Append(ReleaseDir, AddonBin)
             /\ loads[1].result # "threw" =>
                  ~last'.threw /\ last'.value = <<loads[1].result>>
    ]_vars

\* C11, amended: in the scenario with /p/build/Release/addon.node as the only
\* file of Release, the call invokes loadAddonAtPath once, with
\* /p/build/Release/addon.node, and returns what it returned; with addon.bin as
\* the only file, the call fails with "no .node addon file found in build folder
\* /p/build/Release" and loadAddonAtPath is not invoked.
C11_ScenarioWithNodeFile ==
  [][ IsScenarioCall
      => LET loads == LoadInvocations(last'.calls)
         IN  /\ ScenarioWith(AddonNode)
                  => /\ Len(loads) = 1
                     /\ loads[1].path = Append(ReleaseDir, AddonNode)
                     /\ loads[1].result # "threw" =>
                          ~last'.threw /\ last'.value = <<loads[1].result>>
             /\ ScenarioWith(AddonBin)
                  => /\ loads = <<>>
                     /\ last'.threw
                     /\ last'.error =
                          <<Err(<<"no .node addon file found in build folder">>, 0,
                                ReleaseDir, <<>>)>>
    ]_vars

\* a call in the scenario with addon.bin has failed, nothing was loaded
C11_Witness ==
  /\ ScenarioWith(AddonBin)
  /\ last.called
  /\ last.arg = <<Name("build")>>
  /\ last.threw
  /\ last.error = <<Err(<<"no .node addon file found in build folder">>, 0,
                        ReleaseDir, <<>>)>>
  /\ LoadInvocations(last.calls) = <<>>

----------------------------------------------------------------------------
(* The claims about formatPointer *)

\* 0 <= v <= 2^64 - 1: v is not negative and has at most four 16-bit limbs
Fits64Bit(v) == ~v.neg /\ Len(v.limbs) <= 4

\* C12: for every v with 0 <= v <= 2^64 - 1, formatPointer(v) returns "0x"
\* followed by exactly 16 upper-case hexadecimal digits, and parsing those
\* digits as base 16 yields v again.
C12_RoundTrip ==
  ( formatLast.called /\ Fits64Bit(formatLast.arg[1]) )
  => /\ ~formatLast.threw
     /\ LET str == formatLast.value[1]
        IN  /\ Len(str) = 18
            /\ SubSeq(str, 1, 2) = <<"0", "x">>
            /\ \A i \in 3..18 : \E n \in 1..16 : str[i] = UpperHexDigits[n]
            /\ BigIntFromHex(SubSeq(str, 3, 18)) = formatLast.arg[1]

\* formatPointer(0xABCD0000002A) has returned "0x0000ABCD0000002A"
C12_Witness ==
  /\ formatLast.called
  /\ formatLast.arg = <<BigInt(FALSE, <<43981, 0, 42>>)>>
  /\ ~formatLast.threw
  /\ formatLast.value = << <<"0", "x", "0", "0", "0", "0", "A", "B", "C", "D",
                              "0", "0", "0", "0", "0", "0", "2", "A">> >>

\* C13: formatPointer(v) fails, with "invalid pointer address", exactly when
\* v < 0 (the cause being "pointer address cannot be negative") or v > 2^64 - 1
\* (the cause being "pointer address exceeds 64-bit range"); 0 and 2^64 - 1
\* succeed.
C13_RangeCheck ==
  formatLast.called
  => LET v == formatLast.arg[1]
     IN  /\ formatLast.threw <=> (v.neg \/ Len(v.limbs) > 4)
         /\ v.neg => formatLast.error =
              <<InvalidPointerAddress("pointer address cannot be negative")>>
         /\ (~v.neg /\ Len(v.limbs) > 4) => formatLast.error =
              <<InvalidPointerAddress("pointer address exceeds 64-bit range")>>
         /\ v.limbs = <<>> => ~formatLast.threw
         /\ v = BigInt(FALSE, <<LimbBase - 1, LimbBase - 1, LimbBase - 1, LimbBase - 1>>)
              => ~formatLast.threw

\* formatPointer(2^64) has failed, the cause being the 64-bit range
C13_Witness ==
  /\ formatLast.called
  /\ formatLast.arg = <<BigInt(FALSE, <<1, 0, 0, 0, 0>>)>>
  /\ formatLast.threw
  /\ formatLast.error = <<InvalidPointerAddress("pointer address exceeds 64-bit range")>>

\* formatPointer(2^64 - 1) has returned "0xFFFFFFFFFFFFFFFF"
C13_BoundaryWitness ==
  /\ formatLast.called
  /\ formatLast.arg = <<MAX_64BIT>>
  /\ formatLast.value = << <<"0", "x">> \o Repeat("F", 16) >>

----------------------------------------------------------------------------
(* Further claims about the package root resolver *)

\* the existence check findPackageJson makes at the d-th ancestor of start
ManifestCheck(start, d, found) ==
  Call("existsSync", Append(Ancestor(start, d), PackageJsonName), Bool(found))

\* C16: when several ancestors of the starting directory hold a manifest within
\* the budget, the resolver returns the nearest one; whatever it returns is the
\* nearest manifest's directory, and its existence checks are those of the
\* starting directory up to the returned directory, none above it.
C16_NearestAncestorWins ==
  [][ findLast' # findLast
      => LET n == findLast'.arg[1]
             start == StartDir
             depths == ManifestDepths
             checks == findLast'.calls
         IN  /\ Cardinality({ d \in depths : d <= n }) >= 2 => ~findLast'.threw
             /\ ~findLast'.threw
                  => /\ depths # {}
                     /\ findLast'.value = <<Ancestor(start, NearestDepth)>>
                     /\ Len(checks) = NearestDepth + 1
                     /\ \A i \in 1..Len(checks) :
                          checks[i] = ManifestCheck(start, i - 1, i - 1 = NearestDepth)
    ]_vars

\* /p/lib/x.ts with manifests in /p and in /: /p was returned, / never checked
C16_Witness ==
  /\ findLast.called
  /\ ~findLast.threw
  /\ StartDir = LibDir
  /\ ManifestDepths = {1, 2}
  /\ findLast.value = <<PackageDir>>
  /\ findLast.calls = <<ManifestCheck(LibDir, 0, FALSE), ManifestCheck(LibDir, 1, TRUE)>>

\* C17: a search with budget N makes at most N existence checks; once the
\* manifest was looked for in the filesystem root and not found, that check is
\* the last one and the search fails, also when the budget is not used up.
C17_StopsAtRoot ==
  [][ findLast' # findLast
      => LET n == findLast'.arg[1]
             start == StartDir
             checks == findLast'.calls
             rootCheck == ManifestCheck(start, Len(start), FALSE)
         IN  /\ Len(checks) <= n
             /\ \A i \in 1..Len(checks) :
                  /\ checks[i].op = "existsSync"
                  /\ checks[i] = rootCheck
                       => /\ i = Len(checks)
                          /\ findLast'.threw
                          /\ findLast'.error = <<ManifestNotFound(n, start)>>
             /\ ( ManifestDepths = {} /\ n > Len(start) )
                  => /\ Len(checks) = Len(start) + 1
                     /\ checks[Len(checks)] = rootCheck
    ]_vars

\* /p/lib/x.ts without any manifest: the search failed at the root after three
\* checks, its budget being larger
C17_Witness ==
  /\ findLast.called
  /\ findLast.threw
  /\ StartDir = LibDir
  /\ findLast.arg[1] > 3
  /\ Len(findLast.calls) = 3
  /\ findLast.calls[3] = ManifestCheck(LibDir, 2, FALSE)

----------------------------------------------------------------------------
(* The failing paths of the loader *)

\* the resolution of a call fails: no package root, no build folder, not exactly
\* one of Debug and Release, a listing that raised, or not exactly one addon file
ResolutionFails(rel, calls) ==
  \/ ~RootResolves
  \/ LET build == BuildFolderOf(rel)
         variants == VariantDirsOf(build)
     IN  \/ build \notin fs
         \/ Cardinality(variants) # 1
         \/ ListingRaised(calls)
         \/ Cardinality(AddonFilesOf(TheOne(variants))) # 1

\* C18: whenever loadRelativeToPackageRoot fails in package root resolution, in
\* the build folder check, in variant resolution or in artifact resolution (a
\* listing that raises included), loadAddonAtPath was not invoked during that
\* call; a failed call that did invoke it failed in the load itself.
C18_NoLoadOnFailingPath ==
  [][ IsLoadCallStep
      => LET loads == LoadInvocations(last'.calls)
         IN  /\ ResolutionFails(last'.arg, last'.calls)
                  => /\ last'.threw
                     /\ loads = <<>>
                     /\ nLoads' = nLoads
             /\ ( last'.threw /\ loads # <<>> )
                  => /\ ~ResolutionFails(last'.arg, last'.calls)
                     /\ last'.error = <<LoadError(loads[1].path)>>
    ]_vars

\* the listing of /p/build/Release raised: the call failed, nothing was loaded
C18_Witness ==
  /\ last.called
  /\ last.threw
  /\ last.error = <<ListingError(ReleaseDir)>>
  /\ ListingRaised(last.calls)
  /\ LoadInvocations(last.calls) = <<>>
  /\ nLoads = 0

----------------------------------------------------------------------------
(* The states of a protected record *)

\* Active: the record's cell is in the registry, its finalization is pending
Active(r) == CellsOf(r) # {}

\* Released: a call of release() on the record has returned
Released(r) == releaseReturns[r] >= 1

\* Reclaimed without release: the record's leak signal has fired
ReclaimedWithoutRelease(r) == SignalsOf(r) # <<>>

StatesOf(r) ==
  (IF Active(r) THEN {"Active"} ELSE {})
  \cup (IF Released(r) THEN {"Released"} ELSE {})
  \cup (IF ReclaimedWithoutRelease(r) THEN {"ReclaimedWithoutRelease"} ELSE {})

\* C14: every protected record is in exactly one of Active, Released and
\* Reclaimed-without-release; it starts Active; it leaves Active only for
\* Released, in a step where a release() of the record returns, or for
\* Reclaimed-without-release, in a step where the finalizer raises the record's
\* signal; Released and Reclaimed-without-release are never left; a cell leaves
\* the registry in no other step.
C14_RecordStateMachine ==
  [][ \A r \in Records :
        /\ r \in protected' => Cardinality(StatesOf(r)') = 1
        /\ r \notin protected => StatesOf(r) = {}
        /\ (r \notin protected /\ r \in protected') => StatesOf(r)' = {"Active"}
        /\ (r \in protected /\ StatesOf(r)' # StatesOf(r))
             => /\ StatesOf(r) = {"Active"}
                /\ \/ /\ StatesOf(r)' = {"Released"}
                      /\ InRelease(r)
                      /\ releaseReturns'[r] = releaseReturns[r] + 1
                      /\ uncaught' = uncaught
                   \/ /\ StatesOf(r)' = {"ReclaimedWithoutRelease"}
                      /\ r \in collected
                      /\ stack = <<>>
                      /\ releaseReturns' = releaseReturns
                      /\ Len(uncaught') = Len(uncaught) + 1
    ]_vars

\* one record was released, the other one was reclaimed without release
C14_Witness ==
  /\ StatesOf("r1") = {"Released"}
  /\ StatesOf("r2") = {"ReclaimedWithoutRelease"}
  /\ releaseCalls["r1"] = 2
  /\ "r1" \in collected

\* C15: a record's leak signal fires only once its release function is
\* unreachable: a record whose signal fired, or whose cell the collector has
\* handed to the finalizer, has its release function reachable by nothing; as
\* long as the release function is held, with the handle object dropped or not,
\* the record is not reclaimed and its signal does not fire.
C15_NoSignalWhileTokenReachable ==
  \A r \in Records :
    /\ SignalsOf(r) # <<>> => r \in collected
    /\ r \in collected => r \notin handleHeld \cup fnHeld /\ ~InRelease(r)
    /\ r \in fnHeld => r \notin collected /\ SignalsOf(r) = <<>>

\* the handle of one record was dropped, its release function is still held and
\* its cell still registered, while the other record's signal has fired
C15_Witness ==
  \E r \in Records :
    /\ r \in protected
    /\ r \notin handleHeld
    /\ r \in fnHeld
    /\ CellsOf(r) = {Cell(r, info[r], r)}
    /\ \E q \in Records \ {r} : SignalsOf(q) # <<>>

\* a call of release() ends by the callback's exception
IsReleaseThrowStep ==
  /\ Len(stack') < Len(stack)
  /\ releaseReturns' = releaseReturns

\* C19: when the callback raises during release(), release() ends there and
\* unregisters nothing; a record whose calls of release() have all raised stays
\* registered with its own info until the finalizer raises its signal, once,
\* after its release function was reclaimed; a call of release() on it that
\* returns later leaves it without a cell.
C19_ThrowingReleaseKeepsRecordActive ==
  [][ /\ IsReleaseThrowStep
           => /\ registry' = registry
              /\ uncaught' = uncaught
              /\ stack' = SubSeq(stack, 1, Len(stack) - 1)
      /\ \A r \in Records :
           /\ ( r \in protected' /\ releaseReturns'[r] = 0 )
                => \/ /\ CellsOf(r)' = {Cell(r, info'[r], r)}
                      /\ SignalsOf(r)' = <<>>
                   \/ /\ CellsOf(r)' = {}
                      /\ Len(SignalsOf(r)') = 1
                      /\ r \in collected'
           /\ ( releaseReturns[r] = 0 /\ releaseReturns'[r] = 1 /\ callbackCalls[r] >= 2 )
                => CellsOf(r)' = {}
    ]_vars

\* the one release() of a record raised, later its signal fired; the other
\* record was released by a second call after a first one that raised
C19_Witness ==
  \E r \in Records, q \in Records :
    /\ stack = <<>>
    /\ releaseCalls[r] = 1
    /\ releaseReturns[r] = 0
    /\ Len(SignalsOf(r)) = 1
    /\ releaseCalls[q] = 2
    /\ releaseReturns[q] = 1
    /\ CellsOf(q) = {}

====
